---- MODULE Spec2Model ----
(***************************************************************************)
(* Model of the debos pipeline driver (cmd/debos/debos.go) and of the      *)
(* image-partition action (actions/image_partition_action.go), with the    *)
(* apt action (actions/apt_action.go) and the service policy helper        *)
(* (os.go) it toggles.                                                     *)
(*                                                                         *)
(* A build is one or two processes: the process started by the user        *)
(* ("outer") and, when fakemachine is supported, the same program          *)
(* relaunched inside the machine ("inner").  Each process walks the        *)
(* action list phase by phase; one TLA+ action is one phase call of one    *)
(* action, exactly one iteration of one of the loops of main().            *)
(*                                                                         *)
(* Strings that the code inspects character by character (the block        *)
(* target path, the image size) are sequences of one-character strings.    *)
(* Text that the code assembles (fstab) is a sequence of tokens.           *)
(***************************************************************************)
EXTENDS Integers, Sequences, FiniteSets, TLC

VARIABLES
    recipe,      \* r.Actions as parsed from the recipe file
    supported,   \* fakemachine.Supported()
    pc,          \* per process: position in main()
    idx,         \* per process: index of the next action of the current loop
    exitcode,    \* per process: status passed to os.Exit
    context,     \* per process: debos.DebosContext
    actions,     \* per process: the action objects behind r.Actions
    calls,       \* history: every phase call made, in order
    ops,         \* history: every external command / system call, in order
    mounts,      \* mount points currently mounted, in mount order
    loops,       \* loop devices currently attached
    args,        \* arguments main() collects for the relaunch in the machine
    recipeDone,  \* processes that logged "==== Recipe done ===="
    parses,      \* does r.Parse accept the recipe file?
    options,     \* the command line options main() looks at
    files,       \* temporary files and directories main() created
    deferred,    \* per process: the calls main() has deferred, in order
    relaunchErr, \* history: RunInMachineWithArgs returned an error
    policyHelper \* does /usr/sbin/policy-rc.d exist?

vars == <<recipe, supported, pc, idx, exitcode, context, actions, calls, ops,
          mounts, loops, args, recipeDone, parses, options, files, deferred,
          relaunchErr, policyHelper>>

----------------------------------------------------------------------------
(* Bounds *)

MaxActions == 2
MaxParts == 2
MaxMounts == 2

----------------------------------------------------------------------------
(* Characters and strings *)

Digits == <<"0", "1", "2", "3", "4", "5", "6", "7", "8", "9">>

IsDigit(c) == \E d \in 1..Len(Digits) : Digits[d] = c

DigitVal(c) == (CHOOSE d \in 1..Len(Digits) : Digits[d] = c) - 1

\* fmt.Sprintf("%d", n) for n >= 0
RECURSIVE Itoa(_)
Itoa(n) == IF n < 10 THEN <<Digits[n + 1]>>
           ELSE Itoa(n \div 10) \o <<Digits[(n % 10) + 1]>>

\* strings.Contains(s, sub)
Contains(s, sub) ==
    \E k \in 1..(Len(s) - Len(sub) + 1) : SubSeq(s, k, k + Len(sub) - 1) = sub

\* strings.Join(elems, sep), as the sequence of its pieces
RECURSIVE Join(_, _)
Join(elems, sep) ==
    IF Len(elems) = 0 THEN <<>>
    ELSE IF Len(elems) = 1 THEN <<elems[1]>>
    ELSE <<elems[1], sep>> \o Join(Tail(elems), sep)

\* path.Join(dir, name) for an absolute name
PathJoin(dir, name) == IF name = "/" THEN dir ELSE dir \o name

NoErr == "nil"

Min(S) == CHOOSE x \in S : \A y \in S : x <= y

\* all sequences over S of length at most n
SeqsUpTo(S, n) == UNION {[1..k -> S] : k \in 0..n}

----------------------------------------------------------------------------
(* Recipes *)

Str1GB == <<"1", "G", "B">>
Str1XB == <<"1", "X", "B">>

\* Partition descriptors as the YAML decoder leaves them: the unexported
\* number and the FSUUID hold their zero values.
PartRoot ==
    [number |-> 0, Name |-> "root", Start |-> "64MB", End |-> "100%",
     FS |-> "ext4", Flags |-> <<"boot">>, FSUUID |-> ""]

PartFirmware ==
    [number |-> 0, Name |-> "firmware", Start |-> "0%", End |-> "64MB",
     FS |-> "fat32", Flags |-> <<>>, FSUUID |-> ""]

\* a second partition that reuses the name "root"
PartRootAgain ==
    [number |-> 0, Name |-> "root", Start |-> "0%", End |-> "64MB",
     FS |-> "fat32", Flags |-> <<>>, FSUUID |-> ""]

WellFormedParts == {PartRoot, PartFirmware, PartRootAgain}

MalformedParts ==
    {[PartRoot EXCEPT !.Name = ""], [PartRoot EXCEPT !.Start = ""],
     [PartRoot EXCEPT !.End = ""], [PartRoot EXCEPT !.FS = ""]}

\* Mount descriptors; part is the index of the partition descriptor the
\* pointer m.part refers to, 0 for nil.
MountRoot ==
    [Mountpoint |-> "/", Partition |-> "root", Options |-> <<>>, part |-> 0]

MountFirmware ==
    [Mountpoint |-> "/boot/firmware", Partition |-> "firmware",
     Options |-> <<"x-systemd.automount">>, part |-> 0]

MountData ==
    [Mountpoint |-> "/data", Partition |-> "data",
     Options |-> <<"ro", "noatime">>, part |-> 0]

MountChoices == {MountRoot, MountFirmware, MountData}

ImagePartitionActions ==
    {[kind |-> "image-partition", ImageName |-> "debian.img",
      ImageSize |-> sz, PartitionType |-> pt, Partitions |-> ps,
      Mountpoints |-> ms, size |-> 0, usingLoop |-> FALSE] :
        sz \in {Str1GB, Str1XB},
        pt \in {"gpt", "msdos"},
        ps \in SeqsUpTo(WellFormedParts \cup MalformedParts, MaxParts),
        ms \in SeqsUpTo(MountChoices, MaxMounts)}

\* any other action: the driver only sees what its phase calls return
OtherAction == [kind |-> "other"]

\* Recipes with a single image-partition action, over every declaration
\* the descriptors above allow.
ProvisionRecipes == {<<ip>> : ip \in ImagePartitionActions}

ImagePartition(pt, ps, ms) ==
    [kind |-> "image-partition", ImageName |-> "debian.img",
     ImageSize |-> Str1GB, PartitionType |-> pt, Partitions |-> ps,
     Mountpoints |-> ms, size |-> 0, usingLoop |-> FALSE]

\* Recipes of several actions: any list of other actions and of three
\* image-partition actions, one of which does not pass Verify.
PipelineActions ==
    {OtherAction,
     ImagePartition("gpt", <<PartFirmware, PartRoot>>,
                    <<MountRoot, MountFirmware>>),
     ImagePartition("msdos", <<PartFirmware>>, <<MountFirmware>>),
     ImagePartition("gpt", <<PartRoot>>, <<MountData>>)}

Recipes == SeqsUpTo(PipelineActions, MaxActions)

\* an apt action as the YAML decoder leaves it
AptAction(allow) ==
    [kind |-> "apt", Recommends |-> FALSE, Packages |-> <<"openssh-server">>,
     AllowServices |-> allow]

\* Recipes of apt actions, with and without allow-services, and of other
\* actions.
AptRecipes ==
    SeqsUpTo({AptAction(allow) : allow \in BOOLEAN} \cup {OtherAction},
             MaxActions)

----------------------------------------------------------------------------
(* units.FromHumanSize, as called by Verify: digits, then an optional unit *)
(* prefix, an optional "i" and an optional "B".                            *)

UnitMult(u) ==
    IF u \in {"k", "K"} THEN 1000
    ELSE IF u \in {"m", "M"} THEN 1000000
    ELSE 1000000000

RECURSIVE Atoi(_)
Atoi(s) == IF Len(s) = 0 THEN 0
           ELSE 10 * Atoi(SubSeq(s, 1, Len(s) - 1)) + DigitVal(s[Len(s)])

FromHumanSize(s) ==
    LET nd == IF \E k \in 1..Len(s) : ~IsDigit(s[k])
              THEN Min({k \in 1..Len(s) : ~IsDigit(s[k])}) - 1
              ELSE Len(s)
        r0 == SubSeq(s, nd + 1, Len(s))
        r1 == IF Len(r0) > 0 /\ r0[Len(r0)] \in {"b", "B"}
              THEN SubSeq(r0, 1, Len(r0) - 1) ELSE r0
        r2 == IF Len(r1) > 0 /\ r1[Len(r1)] \in {"i", "I"}
              THEN SubSeq(r1, 1, Len(r1) - 1) ELSE r1
        ok == /\ nd > 0
              /\ \/ Len(r2) = 0
                 \/ Len(r2) = 1 /\ r2[1] \in {"k", "K", "m", "M", "g", "G"}
    IN IF ~ok THEN [size |-> -1, err |-> "invalid size"]
       ELSE [size |-> Atoi(SubSeq(s, 1, nd))
                        * (IF Len(r2) = 0 THEN 1 ELSE UnitMult(r2[1])),
             err |-> NoErr]

----------------------------------------------------------------------------
(* ImagePartitionAction.Verify: pointer receiver, so what it writes stays  *)
(* in the action object, also when it returns an error.                    *)

\* mutant: the first loop numbering the partitions by their slice index
RECURSIVE VerifyPartitionsByIndex(_, _, _)
VerifyPartitionsByIndex(i, k, num) ==
    IF k > Len(i.Partitions) THEN [err |-> NoErr, i |-> i]
    ELSE LET i2 == [i EXCEPT !.Partitions[k].number = k - 1]
             p == i2.Partitions[k]
         IN IF p.Name = "" \/ p.Start = "" \/ p.End = "" \/ p.FS = ""
            THEN [err |-> "Partition misses a field", i |-> i2]
            ELSE VerifyPartitionsByIndex(i2, k + 1, num + 1)

\* first loop: number the partitions and check their mandatory fields
RECURSIVE VerifyPartitions(_, _, _)
VerifyPartitions(i, k, num) ==
    IF k > Len(i.Partitions) THEN [err |-> NoErr, i |-> i]
    ELSE LET i2 == [i EXCEPT !.Partitions[k].number = num]
             p == i2.Partitions[k]
         IN IF p.Name = "" THEN [err |-> "Partition without a name", i |-> i2]
            ELSE IF p.Start = "" THEN [err |-> "Partition missing start", i |-> i2]
            ELSE IF p.End = "" THEN [err |-> "Partition missing end", i |-> i2]
            ELSE IF p.FS = "" THEN [err |-> "Partition missing fs type", i |-> i2]
            ELSE VerifyPartitions(i2, k + 1, num + 1)

\* inner loop: m.part = first partition carrying the mount's partition name
ResolvePart(m, parts) ==
    LET hits == {k \in 1..Len(parts) : m.Partition = parts[k].Name}
    IN IF hits = {} THEN m.part ELSE Min(hits)

\* mutant: the second loop without its check for an unresolved mount
RECURSIVE VerifyMountpointsUnchecked(_, _)
VerifyMountpointsUnchecked(i, k) ==
    IF k > Len(i.Mountpoints) THEN [err |-> NoErr, i |-> i]
    ELSE VerifyMountpointsUnchecked(
            [i EXCEPT !.Mountpoints[k].part =
                         ResolvePart(i.Mountpoints[k], i.Partitions)],
            k + 1)

\* second loop: resolve every mount
RECURSIVE VerifyMountpoints(_, _)
VerifyMountpoints(i, k) ==
    IF k > Len(i.Mountpoints) THEN [err |-> NoErr, i |-> i]
    ELSE LET i2 == [i EXCEPT !.Mountpoints[k].part =
                                ResolvePart(i.Mountpoints[k], i.Partitions)]
         IN IF i2.Mountpoints[k].part = 0
            THEN [err |-> "Couldn't fount partition", i |-> i2]
            ELSE VerifyMountpoints(i2, k + 1)

Verify(i) ==
    LET r1 == VerifyPartitions(i, 1, 1)
        r2 == VerifyMountpoints(r1.i, 1)
        sz == FromHumanSize(i.ImageSize)
    IN IF r1.err # NoErr THEN r1
       ELSE IF r2.err # NoErr THEN r2
       ELSE IF sz.err # NoErr
            THEN [err |-> "Failed to parse image size", i |-> r2.i]
       ELSE [err |-> NoErr, i |-> [r2.i EXCEPT !.size = sz.size]]

----------------------------------------------------------------------------
(* The world a phase call acts on.  A call is evaluated on a record        *)
(*   [i, ctx, args, mounts, loops, ops, err]                               *)
(* holding the receiver, the context, the machine arguments, the mounted   *)
(* paths, the attached loop devices, the external operations performed by  *)
(* this call and the error it returns; Run of the apt action also carries  *)
(* a field helper, the existence of the policy helper file.  External      *)
(* commands can succeed or fail, so a call yields the set of its possible  *)
(* outcomes.                                                               *)

Op(name, n, dev, arg) ==
    [op |-> name, n |-> n, dev |-> dev, arg |-> arg, ok |-> TRUE]

\* continue every outcome of S that has not failed yet with F
Bind(S, F(_)) == UNION {IF s.err # NoErr THEN {s} ELSE F(s) : s \in S}

\* an external command whose failure is returned as msg
Cmd(s, o, msg) ==
    {[s EXCEPT !.ops = Append(@, o)],
     [s EXCEPT !.ops = Append(@, [o EXCEPT !.ok = FALSE]), !.err = msg]}

\* an external command whose result is dropped
CmdIgnored(s, o) ==
    {[s EXCEPT !.ops = Append(@, o)],
     [s EXCEPT !.ops = Append(@, [o EXCEPT !.ok = FALSE])]}

\* block targets handed out by the machine and by losetup
DiskById == <<"/", "d", "i", "s", "k", "/", "b", "y", "-", "i", "d", "/">>
ByIdFoo == <<"/", "d", "e", "v">> \o DiskById \o <<"f", "o", "o">>
ByIdVd0 == <<"/", "d", "e", "v">> \o DiskById \o <<"v", "d", "0">>
TmpImage == <<"/", "t", "m", "p", "/", "i", "m", "a", "g", "e">>
TmpImage5 == TmpImage \o <<"5">>

MachineImages == {ByIdFoo, ByIdVd0}
LoopDevices == {TmpImage, TmpImage5}

\* blkid output for the filesystem made on partition n
UUIDOf(n) == "uuid-" \o ToString(n)

\* what blkid prints when it exits 0: the UUID of the filesystem mkfs made,
\* nothing where mkfs made none
BlkidOutput(mkfsOk, n) == IF mkfsOk THEN {UUIDOf(n)} ELSE {""}

\* the "fat32" alias, as spelled out in formatPartition, Run and generateFSTab
MkfsCommand(fs) == IF fs = "fat32" THEN "mkfs.vfat" ELSE "mkfs." \o fs
\* mutant: a mount loop without the fat32 case
MountFSConfigured(fs) == fs

MountFS(fs) == IF fs = "fat32" THEN "vfat" ELSE fs
FSTabFS(fs) == IF fs = "fat32" THEN "vfat" ELSE fs

getPartitionDevice(number, image) ==
    LET suffix == IF Contains(image, DiskById)
                  THEN <<"-", "p", "a", "r", "t">> ELSE <<"p">>
        last == image[Len(image)]
    IN IF IsDigit(last) THEN image \o suffix \o Itoa(number)
       ELSE image \o Itoa(number)

PreMachine(s) ==
    {[s EXCEPT !.ops = Append(@, [Op("CreateImage", 0, <<>>, s.i.ImageName)
                                     EXCEPT !.ok = FALSE]),
               !.err = "CreateImage failed"]}
    \cup
    {[s EXCEPT !.ops = Append(@, Op("CreateImage", 0, image, s.i.ImageName)),
               !.ctx.Image = image,
               !.args = @ \o <<"--internal-image", image>>] :
        image \in MachineImages}

PreNoMachine(s) ==
    LET opened == Cmd(s, Op("OpenFile", 0, <<>>, s.i.ImageName),
                      "Couldn't open image file")
        sized == Bind(opened, LAMBDA t :
                    Cmd(t, Op("Truncate", 0, <<>>, s.i.ImageName),
                        "Couldn't resize image file"))
    IN Bind(sized, LAMBDA t :
            {[t EXCEPT !.ops = Append(@, [Op("losetup", 0, <<>>, s.i.ImageName)
                                             EXCEPT !.ok = FALSE]),
                       !.err = "Failed to setup loop device"]}
            \cup
            {[t EXCEPT !.ops = Append(@, Op("losetup", 0, loop, s.i.ImageName)),
                       !.loops = @ \cup {loop},
                       !.ctx.Image = loop,
                       !.i.usingLoop = TRUE] :
                loop \in LoopDevices})

----------------------------------------------------------------------------
(* ImagePartitionAction.Run and what it calls *)

\* mkfs (its result is dropped), then blkid, whose trimmed output becomes
\* the partition's FSUUID
formatPartition(s, k) ==
    LET p == s.i.Partitions[k]
        path == getPartitionDevice(p.number, s.ctx.Image)
        made == CmdIgnored(s, Op("mkfs", p.number, path, MkfsCommand(p.FS)))
    IN Bind(made, LAMBDA t :
            {[t EXCEPT !.ops = Append(@, [Op("blkid", p.number, path, "")
                                             EXCEPT !.ok = FALSE]),
                       !.err = "Failed to get uuid"]}
            \cup
            {[t EXCEPT !.ops = Append(@, Op("blkid", p.number, path, uuid)),
                       !.i.Partitions[k].FSUUID = uuid] :
                uuid \in BlkidOutput(t.ops[Len(t.ops)].ok, p.number)})

\* parted set <number> <flag> on, for the flags from the j-th on
RECURSIVE SetFlags(_, _, _)
SetFlags(S, k, j) ==
    IF \A s \in S : j > Len(s.i.Partitions[k].Flags) THEN S
    ELSE SetFlags(
            Bind(S, LAMBDA t :
                Cmd(t, Op("set", t.i.Partitions[k].number, t.ctx.Image,
                          t.i.Partitions[k].Flags[j]),
                    "parted set failed")),
            k, j + 1)

\* mutant: a partition loop that formats before it sets the flags
RunPartitionFormatsFirst(s, k) ==
    LET p == s.i.Partitions[k]
        name == IF s.i.PartitionType = "gpt" THEN p.Name ELSE "primary"
        created == Cmd(s, Op("mkpart", k, s.ctx.Image,
                             <<name, p.FS, p.Start, p.End>>),
                       "parted mkpart failed")
        formatted == Bind(created, LAMBDA t : formatPartition(t, k))
    IN SetFlags(formatted, k, 1)

\* one iteration of the partition loop of Run
RunPartition(s, k) ==
    LET p == s.i.Partitions[k]
        name == IF s.i.PartitionType = "gpt" THEN p.Name ELSE "primary"
        created == Cmd(s, Op("mkpart", k, s.ctx.Image,
                             <<name, p.FS, p.Start, p.End>>),
                       "parted mkpart failed")
        flagged == SetFlags(created, k, 1)
    IN Bind(flagged, LAMBDA t : formatPartition(t, k))

RECURSIVE RunPartitions(_, _)
RunPartitions(S, k) ==
    IF \A s \in S : k > Len(s.i.Partitions) THEN S
    ELSE RunPartitions(Bind(S, LAMBDA t : RunPartition(t, k)), k + 1)

\* one iteration of the mount loop of Run
RunMount(s, j) ==
    LET m == s.i.Mountpoints[j]
        part == s.i.Partitions[m.part]
        dev == getPartitionDevice(part.number, s.ctx.Image)
        mntpath == PathJoin(s.ctx.ImageMntDir, m.Mountpoint)
        o == Op("mount", j, dev, <<mntpath, MountFS(part.FS)>>)
    IN {[s EXCEPT !.ops = Append(@, o), !.mounts = Append(@, mntpath)],
        [s EXCEPT !.ops = Append(@, [o EXCEPT !.ok = FALSE]),
                  !.err = "mount failed"]}

RECURSIVE RunMounts(_, _)
RunMounts(S, j) ==
    IF \A s \in S : j > Len(s.i.Mountpoints) THEN S
    ELSE RunMounts(Bind(S, LAMBDA t : RunMount(t, j)), j + 1)

\* one fstab line, token by token
FSTabLine(m, part) ==
    <<"UUID=", part.FSUUID, "\t", m.Mountpoint, "\t", FSTabFS(part.FS), "\t">>
    \o Join(<<"defaults">> \o m.Options, ",")
    \o <<"\t", "0", "\t", "0", "\n">>

\* the loop of generateFSTab from the j-th mount on
RECURSIVE WriteFSTab(_, _)
WriteFSTab(s, j) ==
    IF j > Len(s.i.Mountpoints) THEN s
    ELSE LET m == s.i.Mountpoints[j]
             part == s.i.Partitions[m.part]
         IN IF part.FSUUID = "" THEN [s EXCEPT !.err = "Missing fs UUID"]
            ELSE WriteFSTab(
                    [s EXCEPT !.ctx.ImageFSTab = @ \o FSTabLine(m, part)],
                    j + 1)

\* mutant: generateFSTab without context.ImageFSTab.Reset()
generateFSTabAppending(s) == WriteFSTab(s, 1)

generateFSTab(s) == WriteFSTab([s EXCEPT !.ctx.ImageFSTab = <<>>], 1)

\* mutant: a generateKernelRoot that insists on a mount of "/"
generateKernelRootRequired(s) ==
    LET roots == {j \in 1..Len(s.i.Mountpoints) :
                     s.i.Mountpoints[j].Mountpoint = "/"}
    IN IF roots = {} THEN [s EXCEPT !.err = "No root mount"]
       ELSE LET part == s.i.Partitions[s.i.Mountpoints[Min(roots)].part]
            IN IF part.FSUUID = ""
               THEN [s EXCEPT !.err = "No fs UUID for root partition"]
               ELSE [s EXCEPT !.ctx.ImageKernelRoot =
                                 <<"root=UUID=", part.FSUUID>>]

generateKernelRoot(s) ==
    LET roots == {j \in 1..Len(s.i.Mountpoints) :
                     s.i.Mountpoints[j].Mountpoint = "/"}
    IN IF roots = {} THEN s
       ELSE LET part == s.i.Partitions[s.i.Mountpoints[Min(roots)].part]
            IN IF part.FSUUID = ""
               THEN [s EXCEPT !.err = "No fs UUID for root partition"]
               ELSE [s EXCEPT !.ctx.ImageKernelRoot =
                                 <<"root=UUID=", part.FSUUID>>]

Run(s) ==
    LET labelled == Cmd(s, Op("mklabel", 0, s.ctx.Image, s.i.PartitionType),
                        "parted mklabel failed")
        formatted == RunPartitions(labelled, 1)
        mntdir == Bind(formatted, LAMBDA t :
                     {[t EXCEPT !.ctx.ImageMntDir =
                                   PathJoin(t.ctx.Scratchdir, "/mnt")]})
        mounted == RunMounts(mntdir, 1)
        fstab == Bind(mounted, LAMBDA t : {generateFSTab(t)})
    IN Bind(fstab, LAMBDA t : {generateKernelRoot(t)})

----------------------------------------------------------------------------
(* ImagePartitionAction.Cleanup *)

\* drop the topmost mount at path
RemoveLast(seq, x) ==
    LET at == {k \in 1..Len(seq) : seq[k] = x}
        last == CHOOSE k \in at : \A y \in at : y <= k
    IN IF at = {} THEN seq
       ELSE SubSeq(seq, 1, last - 1) \o SubSeq(seq, last + 1, Len(seq))

\* syscall.Unmount of the j-th mount point; the result is dropped
Unmount(s, j) ==
    LET mntpath == PathJoin(s.ctx.ImageMntDir, s.i.Mountpoints[j].Mountpoint)
        o == Op("umount", j, <<>>, mntpath)
        mounted == \E k \in 1..Len(s.mounts) : s.mounts[k] = mntpath
    IN {[s EXCEPT !.ops = Append(@, [o EXCEPT !.ok = FALSE])]}
       \cup
       (IF mounted
        THEN {[s EXCEPT !.ops = Append(@, o),
                        !.mounts = RemoveLast(@, mntpath)]}
        ELSE {})

\* mutant: the unmount loop running idx := 0 .. len-1
RECURSIVE UnmountAscending(_, _)
UnmountAscending(S, j) ==
    IF j < 1 THEN S
    ELSE UNION {Unmount(s, j) : s \in UnmountAscending(S, j - 1)}

\* the unmount loop: idx := len-1 .. 0
RECURSIVE UnmountFrom(_, _)
UnmountFrom(S, j) ==
    IF j < 1 THEN S
    ELSE UnmountFrom(UNION {Unmount(s, j) : s \in S}, j - 1)

\* losetup -d; the result is dropped
Detach(s) ==
    LET o == Op("losetup -d", 0, s.ctx.Image, "")
    IN {[s EXCEPT !.ops = Append(@, o), !.loops = @ \ {s.ctx.Image}],
        [s EXCEPT !.ops = Append(@, [o EXCEPT !.ok = FALSE])]}

Cleanup(s) ==
    LET unmounted == UnmountFrom({s}, Len(s.i.Mountpoints))
    IN IF s.i.usingLoop THEN UNION {Detach(t) : t \in unmounted}
       ELSE unmounted

----------------------------------------------------------------------------
(* ServicePolicyHelper and AptAction.Run *)

DenyServices == 0
AllowServices == 1

\* ServicePolicyHelper(action) on the policy helper file.  Both callers drop
\* the error it returns, so an outcome is the file system it leaves.  In the
\* DenyServices case a missing file is left alone and an existing one is
\* removed, unless os.Remove fails.  In the AllowServices case os.IsExist of
\* the result of os.Stat is never true, so the file is always created
\* (truncated when it exists) with the helper script, unless os.Create fails.
ServicePolicyHelper(s, action) ==
    CASE action = DenyServices ->
            IF ~s.helper THEN {s}
            ELSE {[s EXCEPT !.helper = FALSE], s}
      [] action = AllowServices ->
            {[s EXCEPT !.helper = TRUE], s}
      [] OTHER -> {s}

\* the argument vector of the install command
AptOptions(apt) ==
    <<"apt-get", "-y">>
    \o (IF ~apt.Recommends THEN <<"--no-install-recommends">> ELSE <<>>)
    \o <<"install">> \o apt.Packages

\* a command run in the chroot; the log keeps its argument vector and
\* whether the policy helper file exists while it runs
ChrootRun(s, argv) ==
    Cmd(s, Op(argv[1], 0, <<>>, [argv |-> argv, helper |-> s.helper]),
        "apt failed")

\* AptAction.Run: the deferred ServicePolicyHelper call runs on every return
AptRun(s) ==
    LET toggles == s.i.AllowServices # TRUE
        denied == IF toggles THEN ServicePolicyHelper(s, DenyServices)
                  ELSE {s}
        updated == Bind(denied, LAMBDA t :
                      ChrootRun(t, <<"apt-get", "update">>))
        installed == Bind(updated, LAMBDA t : ChrootRun(t, AptOptions(s.i)))
        cleaned == Bind(installed, LAMBDA t :
                      ChrootRun(t, <<"apt-get", "clean">>))
    IN IF toggles
       THEN UNION {ServicePolicyHelper(t, AllowServices) : t \in cleaned}
       ELSE cleaned

----------------------------------------------------------------------------
(* Phase calls as the driver makes them *)

Procs == {"outer", "inner"}

\* fakemachine.InMachine()
InMachine(p) == p = "inner"

\* an action the driver knows only through the Action interface
OtherPhase(s) == {s, [s EXCEPT !.err = "action failed"]}

\* BaseAction.PostMachine, which ImagePartitionAction inherits
BasePostMachine(s) == {s}

\* the phases of BaseAction, which AptAction inherits except for Run
BasePhase(s) == {s}

PhaseCall(phase, s) ==
    IF s.i.kind = "image-partition"
    THEN CASE phase = "Verify" ->
                {[s EXCEPT !.i = Verify(s.i).i, !.err = Verify(s.i).err]}
           [] phase = "PreMachine" -> PreMachine(s)
           [] phase = "PreNoMachine" -> PreNoMachine(s)
           [] phase = "Run" -> Run(s)
           [] phase = "Cleanup" -> Cleanup(s)
           [] phase = "PostMachine" -> BasePostMachine(s)
    ELSE IF s.i.kind = "apt"
    THEN IF phase = "Run" THEN AptRun(s) ELSE BasePhase(s)
    ELSE OtherPhase(s)

\* What a call leaves in the action object.  Verify has a pointer receiver.
\* PreMachine, PreNoMachine, Run and Cleanup have value receivers: they work
\* on a copy of the struct, which shares only the backing arrays of the
\* Partitions and Mountpoints slices with the object.
Receiver(phase, obj, copy) ==
    IF obj.kind # "image-partition" THEN obj
    ELSE IF phase = "Verify" THEN copy
    ELSE [obj EXCEPT !.Partitions = copy.Partitions,
                     !.Mountpoints = copy.Mountpoints]

\* Cleanup and PostMachine receive the context by value
ContextAfter(phase, old, new) ==
    IF phase \in {"Cleanup", "PostMachine"} THEN old ELSE new

LoopPhases ==
    {"Verify", "PreMachine", "PreNoMachine", "Run", "Cleanup", "PostMachine"}

\* mutant: the PostMachine loop placed between the Run and Cleanup loops
AfterPhasePostFirst(p, phase) ==
    CASE phase = "Verify" ->
            IF ~InMachine(p) /\ supported THEN "BuildStorage"
            ELSE IF ~InMachine(p) THEN "PreNoMachine"
            ELSE "Run"
      [] phase = "BuildStorage" -> "PreMachine"
      [] phase = "PreMachine" -> "RunInMachine"
      [] phase = "PreNoMachine" -> "Run"
      [] phase = "Run" -> IF ~InMachine(p) THEN "PostMachine" ELSE "Cleanup"
      [] phase = "PostMachine" ->
            IF ~InMachine(p) /\ ~supported THEN "Cleanup" ELSE "done"
      [] phase = "Cleanup" -> IF ~InMachine(p) THEN "done" ELSE "return"

\* mutant: main() without its Cleanup loop
AfterPhaseSkipsCleanup(p, phase) ==
    CASE phase = "Verify" ->
            IF ~InMachine(p) /\ supported THEN "BuildStorage"
            ELSE IF ~InMachine(p) THEN "PreNoMachine"
            ELSE "Run"
      [] phase = "BuildStorage" -> "PreMachine"
      [] phase = "PreMachine" -> "RunInMachine"
      [] phase = "PreNoMachine" -> "Run"
      [] phase = "Run" -> IF ~InMachine(p) THEN "PostMachine" ELSE "return"
      [] phase = "Cleanup" -> IF ~InMachine(p) THEN "PostMachine" ELSE "return"
      [] phase = "PostMachine" -> "done"

\* mutant: main() without its PreNoMachine loop
AfterPhaseSkipsPreNoMachine(p, phase) ==
    CASE phase = "Verify" ->
            IF ~InMachine(p) /\ supported THEN "BuildStorage"
            ELSE "Run"
      [] phase = "BuildStorage" -> "PreMachine"
      [] phase = "PreMachine" -> "RunInMachine"
      [] phase = "PreNoMachine" -> "Run"
      [] phase = "Run" -> "Cleanup"
      [] phase = "Cleanup" -> IF ~InMachine(p) THEN "PostMachine" ELSE "return"
      [] phase = "PostMachine" -> "done"

\* where main() continues when the loop of a phase is over
AfterPhase(p, phase) ==
    CASE phase = "Verify" ->
            IF ~InMachine(p) /\ supported THEN "BuildStorage"
            ELSE IF ~InMachine(p) THEN "PreNoMachine"
            ELSE "Run"
      [] phase = "BuildStorage" -> "PreMachine"
      [] phase = "PreMachine" -> "RunInMachine"
      [] phase = "PreNoMachine" -> "Run"
      [] phase = "Run" -> "Cleanup"
      [] phase = "Cleanup" -> IF ~InMachine(p) THEN "PostMachine" ELSE "return"
      [] phase = "PostMachine" -> "done"

\* a loop over an empty action list is over at once
RECURSIVE Enter(_, _)
Enter(p, where) ==
    IF where \in LoopPhases /\ Len(recipe) = 0
    THEN Enter(p, AfterPhase(p, where))
    ELSE where

Tag(p, a, o) ==
    [proc |-> p, act |-> a, op |-> o.op, n |-> o.n, dev |-> o.dev,
     arg |-> o.arg, ok |-> o.ok]

\* mutant: a driver that logs the error and carries on
bailOnErrorNever(err) == FALSE

\* bailOnError: does the process exit on this result of a call?
bailOnError(err) == err # NoErr

\* one iteration of the loop of a phase: the call, then bailOnError
PhaseStep(p, phase) ==
    /\ pc[p] = phase
    /\ LET a == idx[p]
           s0 == [i |-> actions[p][a], ctx |-> context[p], args |-> args,
                  mounts |-> mounts, loops |-> loops, ops |-> <<>>,
                  err |-> NoErr, helper |-> policyHelper]
       IN \E s \in PhaseCall(phase, s0) :
            /\ actions' = [actions EXCEPT
                              ![p][a] = Receiver(phase, actions[p][a], s.i)]
            /\ context' = [context EXCEPT
                              ![p] = ContextAfter(phase, context[p], s.ctx)]
            /\ args' = s.args
            /\ mounts' = s.mounts
            /\ loops' = s.loops
            /\ policyHelper' = s.helper
            /\ ops' = ops \o [k \in 1..Len(s.ops) |-> Tag(p, a, s.ops[k])]
            /\ calls' = Append(calls, [proc |-> p, phase |-> phase,
                                       act |-> a, err |-> s.err])
            /\ IF bailOnError(s.err)
               THEN \* os.Exit(1), at once: no deferred call runs
                    /\ pc' = [pc EXCEPT ![p] = "exited"]
                    /\ exitcode' = [exitcode EXCEPT ![p] = 1]
                    /\ idx' = idx
               ELSE IF a < Len(recipe)
               THEN /\ idx' = [idx EXCEPT ![p] = a + 1]
                    /\ UNCHANGED <<pc, exitcode>>
               ELSE /\ idx' = [idx EXCEPT ![p] = 1]
                    /\ pc' = [pc EXCEPT ![p] = Enter(p, AfterPhase(p, phase))]
                    /\ UNCHANGED exitcode
    /\ UNCHANGED <<recipe, supported, recipeDone, parses, options, files,
                   deferred, relaunchErr>>

VerifyStep == \E p \in Procs : PhaseStep(p, "Verify")
PreMachineStep == \E p \in Procs : PhaseStep(p, "PreMachine")
PreNoMachineStep == \E p \in Procs : PhaseStep(p, "PreNoMachine")
RunStep == \E p \in Procs : PhaseStep(p, "Run")
CleanupStep == \E p \in Procs : PhaseStep(p, "Cleanup")
PostMachineStep == \E p \in Procs : PhaseStep(p, "PostMachine")

----------------------------------------------------------------------------
(* The rest of main() *)

\* the context main() builds before the first Verify
NewContext(scratchdir, image) ==
    [Scratchdir |-> scratchdir, Image |-> image, ImageMntDir |-> "",
     ImageFSTab |-> <<>>, ImageKernelRoot |-> <<>>]

\* --internal-image as the flag parser of the relaunched process sees it:
\* the value of its last occurrence
InternalImage(argv) ==
    LET at == {k \in 1..Len(argv) : argv[k] = "--internal-image"}
    IN IF at = {} THEN <<>>
       ELSE argv[(CHOOSE k \in at : \A y \in at : y <= k) + 1]

\* what ioutil.TempDir and ioutil.TempFile hand out
ScratchTempDir == "/cwd/.debos-1"
BuildImageFile == "/build/.debos-build-1"

\* the function main() defers first: os.Exit(exitcode)
ExitFunc == [call |-> "os.Exit", arg |-> ""]

\* The files left when the deferred calls d run, last deferred first.  The
\* function deferred first ends the process, after all the others.
RECURSIVE RunDeferred(_, _)
RunDeferred(d, fs) ==
    IF Len(d) = 0 THEN fs
    ELSE IF d[Len(d)].call = "os.Exit" THEN fs
    ELSE RunDeferred(SubSeq(d, 1, Len(d) - 1), fs \ {d[Len(d)].arg})

\* r.Parse and the set-up of the context.  A recipe that does not parse
\* makes main() panic: the deferred function runs and calls
\* os.Exit(exitcode) with the exit code as it is then.  Only the direct
\* build on the host creates a scratch directory.
ParseRecipe ==
    /\ pc["outer"] = "Parse"
    /\ IF parses
       THEN /\ pc' = [pc EXCEPT !["outer"] = Enter("outer", "Verify")]
            /\ context' = [context EXCEPT !["outer"] =
                  NewContext(IF InMachine("outer") \/ supported
                             THEN "/scratch" ELSE ScratchTempDir, <<>>)]
            /\ files' = IF InMachine("outer") \/ supported THEN files
                        ELSE files \cup {ScratchTempDir}
            /\ deferred' = IF InMachine("outer") \/ supported THEN deferred
                           ELSE [deferred EXCEPT !["outer"] =
                                    Append(@, [call |-> "os.RemoveAll",
                                               arg |-> ScratchTempDir])]
       ELSE /\ pc' = [pc EXCEPT !["outer"] = "exited"]
            /\ files' = RunDeferred(deferred["outer"], files)
            /\ UNCHANGED <<context, deferred>>
    /\ UNCHANGED <<recipe, supported, idx, exitcode, actions, calls, ops,
                   mounts, loops, args, recipeDone, parses, options,
                   relaunchErr, policyHelper>>

\* what prepareBuildImage can return: no file and an error, the file and an
\* error, or the file
prepareBuildImage ==
    {[name |-> "", err |-> "no temporary file"],
     [name |-> BuildImageFile, err |-> "mkfs.ext4 failed"],
     [name |-> BuildImageFile, err |-> NoErr]}

\* the build storage image, between the Verify and the PreMachine loop
PrepareBuildImage ==
    /\ pc["outer"] = "BuildStorage"
    /\ IF Len(options.BuildStorageLocation) # 0
       THEN \E r \in prepareBuildImage :
               /\ files' = IF Len(r.name) # 0 THEN files \cup {r.name}
                           ELSE files
               /\ deferred' = IF Len(r.name) # 0
                              THEN [deferred EXCEPT !["outer"] =
                                       Append(@, [call |-> "os.Remove",
                                                  arg |-> r.name])]
                              ELSE deferred
               /\ IF r.err # NoErr
                  THEN /\ exitcode' = [exitcode EXCEPT !["outer"] = 1]
                       /\ pc' = [pc EXCEPT !["outer"] = "return"]
                  ELSE /\ exitcode' = [exitcode EXCEPT !["outer"] = 0]
                       /\ pc' = [pc EXCEPT !["outer"] =
                                    Enter("outer",
                                          AfterPhase("outer", "BuildStorage"))]
       ELSE /\ pc' = [pc EXCEPT !["outer"] =
                         Enter("outer", AfterPhase("outer", "BuildStorage"))]
            /\ UNCHANGED <<exitcode, files, deferred>>
    /\ UNCHANGED <<recipe, supported, idx, context, actions, calls, ops,
                   mounts, loops, args, recipeDone, parses, options,
                   relaunchErr, policyHelper>>

\* exit codes RunInMachineWithArgs may return together with an error
MachineErrorCodes == {-1, 0}

\* m.RunInMachineWithArgs(args) fails without running the build
RunInMachineFails ==
    /\ pc["outer"] = "RunInMachine"
    /\ \E code \in MachineErrorCodes :
          exitcode' = [exitcode EXCEPT !["outer"] = code]
    /\ pc' = [pc EXCEPT !["outer"] = "return"]
    /\ relaunchErr' = TRUE
    /\ UNCHANGED <<recipe, supported, idx, context, actions, calls, ops,
                   mounts, loops, args, recipeDone, parses, options, files,
                   deferred, policyHelper>>

\* m.RunInMachineWithArgs(args) starts the program inside the machine; the
\* relaunched process parses the recipe again and starts at its own Verify
RunInMachineStarts ==
    /\ pc["outer"] = "RunInMachine"
    /\ pc' = [pc EXCEPT !["outer"] = "InMachine",
                        !["inner"] = Enter("inner", "Verify")]
    /\ idx' = [idx EXCEPT !["inner"] = 1]
    /\ actions' = [actions EXCEPT !["inner"] = recipe]
    /\ context' = [context EXCEPT
                      !["inner"] = NewContext("/scratch", InternalImage(args))]
    /\ deferred' = [deferred EXCEPT !["inner"] = <<ExitFunc>>]
    /\ UNCHANGED <<recipe, supported, exitcode, calls, ops, mounts, loops,
                   args, recipeDone, parses, options, files, relaunchErr,
                   policyHelper>>

\* mutant: main() going on to PostMachine whatever the exit code
RunInMachineReturnsUnchecked ==
    /\ pc["outer"] = "InMachine"
    /\ pc["inner"] = "exited"
    /\ exitcode' = [exitcode EXCEPT !["outer"] = exitcode["inner"]]
    /\ pc' = [pc EXCEPT !["outer"] = Enter("outer", "PostMachine")]
    /\ UNCHANGED <<recipe, supported, idx, context, actions, calls, ops,
                   mounts, loops, args, recipeDone, parses, options, files,
                   deferred, relaunchErr, policyHelper>>

\* m.RunInMachineWithArgs(args) returns the exit code of the relaunched
\* process
RunInMachineReturns ==
    /\ pc["outer"] = "InMachine"
    /\ pc["inner"] = "exited"
    /\ exitcode' = [exitcode EXCEPT !["outer"] = exitcode["inner"]]
    /\ pc' = [pc EXCEPT !["outer"] =
                 IF exitcode["inner"] # 0 THEN "return"
                 ELSE Enter("outer", "PostMachine")]
    /\ UNCHANGED <<recipe, supported, idx, context, actions, calls, ops,
                   mounts, loops, args, recipeDone, parses, options, files,
                   deferred, relaunchErr, policyHelper>>

\* main() returns: the deferred calls run, the last of them being the
\* function that calls os.Exit(exitcode)
MainReturns ==
    \E p \in Procs :
        /\ pc[p] \in {"return", "done"}
        /\ recipeDone' = IF pc[p] = "done" THEN recipeDone \cup {p}
                         ELSE recipeDone
        /\ files' = RunDeferred(deferred[p], files)
        /\ pc' = [pc EXCEPT ![p] = "exited"]
        /\ UNCHANGED <<recipe, supported, idx, exitcode, context, actions,
                       calls, ops, mounts, loops, args, parses, options,
                       deferred, relaunchErr, policyHelper>>

\* main() of the process the user started, after the command line has been
\* read and the exit function deferred: a recipe file out of recipes, or one
\* that does not parse, and a build storage location out of locations
InitOf(recipes, locations) ==
    /\ parses \in BOOLEAN
    /\ recipe \in (IF parses THEN recipes ELSE {<<>>})
    /\ options \in {[BuildStorageLocation |-> l] : l \in locations}
    /\ supported \in BOOLEAN
    /\ pc = [p \in Procs |-> IF p = "outer" THEN "Parse" ELSE "idle"]
    /\ idx = [p \in Procs |-> 1]
    /\ exitcode = [p \in Procs |-> 0]
    /\ context = [p \in Procs |-> NewContext("", <<>>)]
    /\ actions = [p \in Procs |-> recipe]
    /\ calls = <<>>
    /\ ops = <<>>
    /\ mounts = <<>>
    /\ loops = {}
    /\ args = <<>>
    /\ recipeDone = {}
    /\ files = {}
    /\ deferred = [p \in Procs |-> IF p = "outer" THEN <<ExitFunc>> ELSE <<>>]
    /\ relaunchErr = FALSE
    /\ policyHelper = FALSE

Init == InitOf(Recipes, {"", "/build"})

\* a build of a recipe that holds one image-partition action
InitProvision == InitOf(ProvisionRecipes, {""})

\* a build of a recipe of apt actions
InitApt == InitOf(AptRecipes, {""})

Next ==
    \/ ParseRecipe
    \/ VerifyStep
    \/ PrepareBuildImage
    \/ PreMachineStep
    \/ PreNoMachineStep
    \/ RunStep
    \/ CleanupStep
    \/ PostMachineStep
    \/ RunInMachineFails
    \/ RunInMachineStarts
    \/ RunInMachineReturns
    \/ MainReturns

Spec == Init /\ [][Next]_vars

ProvisionSpec == InitProvision /\ [][Next]_vars

AptSpec == InitApt /\ [][Next]_vars

----------------------------------------------------------------------------
(* Properties of the driver *)

CallIs(c, p, phase, a) == c.proc = p /\ c.phase = phase /\ c.act = a

Called(p, phase, a) ==
    \E k \in 1..Len(calls) : CallIs(calls[k], p, phase, a)

Returned(p, phase, a, ok) ==
    \E k \in 1..Len(calls) :
        CallIs(calls[k], p, phase, a) /\ (calls[k].err = NoErr) = ok

\* the phase successions of a build: direct on the host, or through the
\* machine
HostOrder ==
    {<<"outer", "Verify", "outer", "PreNoMachine">>,
     <<"outer", "PreNoMachine", "outer", "Run">>,
     <<"outer", "Run", "outer", "Cleanup">>,
     <<"outer", "Cleanup", "outer", "PostMachine">>}

MachineOrder ==
    {<<"outer", "Verify", "outer", "PreMachine">>,
     <<"outer", "PreMachine", "inner", "Verify">>,
     <<"inner", "Verify", "inner", "Run">>,
     <<"inner", "Run", "inner", "Cleanup">>,
     <<"inner", "Cleanup", "outer", "PostMachine">>}

\* c2 is the call that may come right after c1
FollowsInOrder(c1, c2) ==
    \/ /\ c1.proc = c2.proc
       /\ c1.phase = c2.phase
       /\ c2.act = c1.act + 1
    \/ /\ c1.act = Len(recipe)
       /\ c2.act = 1
       /\ <<c1.proc, c1.phase, c2.proc, c2.phase>>
             \in (IF supported THEN MachineOrder ELSE HostOrder)

\* C1: phase-major scheduling.  The calls of a build start with Verify of
\* the first action; each call is followed either by the same phase of the
\* next action of the list or, once the last action has completed the
\* phase, by the next phase of the first action, the phases coming in the
\* order Verify, PreMachine/PreNoMachine, Run, Cleanup, PostMachine; and
\* when the build goes through the machine, PostMachine is called only
\* after the process in the machine has exited.
C1_PhaseMajor ==
    /\ Len(calls) > 0 => CallIs(calls[1], "outer", "Verify", 1)
    /\ \A k \in 1..(Len(calls) - 1) : FollowsInOrder(calls[k], calls[k + 1])
    /\ \A k \in 1..Len(calls) :
          (supported /\ calls[k].phase = "PostMachine")
              => pc["inner"] = "exited"

\* a build through the machine that reached PostMachine of its second action
C1_Witness ==
    /\ supported
    /\ Len(recipe) = 2
    /\ Called("outer", "PostMachine", 2)
    /\ Called("inner", "Cleanup", 2)

\* C2: abort on first error.  Once a phase call has returned an error, the
\* process that made it has exited with a non-zero status and has made no
\* further phase call, and the build as a whole ends with a non-zero status.
C2_AbortOnFirstError ==
    \A k \in 1..Len(calls) :
        calls[k].err # NoErr =>
            /\ pc[calls[k].proc] = "exited"
            /\ exitcode[calls[k].proc] # 0
            /\ \A j \in (k + 1)..Len(calls) : calls[j].proc # calls[k].proc
            /\ pc["outer"] = "exited" => exitcode["outer"] # 0

\* Run of the first of two actions failed and the build is over
C2_Witness ==
    /\ Len(recipe) = 2
    /\ Returned("outer", "Run", 1, FALSE)
    /\ pc["outer"] = "exited"

\* C3 as claimed: when a process is over, every action whose Run completed
\* successfully has had its Cleanup invoked.
C3_CleanupDespiteLaterFailure ==
    \A p \in Procs : \A a \in 1..Len(recipe) :
        (pc[p] = "exited" /\ Returned(p, "Run", a, TRUE))
            => Called(p, "Cleanup", a)

\* C3 as amended: when a process is over, the Cleanup of an action whose Run
\* completed successfully has been invoked exactly if the Run of every
\* action of the list and the Cleanup of every action before it returned no
\* error.
C3_CleanupOnlyAfterAllRuns ==
    \A p \in Procs : \A a \in 1..Len(recipe) :
        (pc[p] = "exited" /\ Returned(p, "Run", a, TRUE))
            => (Called(p, "Cleanup", a)
                  <=> /\ \A b \in 1..Len(recipe) : Returned(p, "Run", b, TRUE)
                      /\ \A b \in 1..(a - 1) : Returned(p, "Cleanup", b, TRUE))

\* Run of the first action succeeded, Run of the second failed, and the
\* process is over without a Cleanup of the first
C3_Witness ==
    \E p \in Procs :
        /\ Len(recipe) = 2
        /\ pc[p] = "exited"
        /\ Returned(p, "Run", 1, TRUE)
        /\ Returned(p, "Run", 2, FALSE)
        /\ ~Called(p, "Cleanup", 1)

----------------------------------------------------------------------------
(* Properties of the image-partition action *)

IsImagePartition(a) == recipe[a].kind = "image-partition"

\* the external operations of one kind that action a of process p performed
OpsOf(p, a, name) ==
    LET Mine(o) == o.proc = p /\ o.act = a /\ o.op = name
    IN SelectSeq(ops, Mine)

\* PreNoMachine of action a attached a loop device
Attached(p, a) ==
    \E k \in 1..Len(OpsOf(p, a, "losetup")) : OpsOf(p, a, "losetup")[k].ok

\* C4 as claimed: once Cleanup of an image-partition action has been called,
\* it has detached the loop device exactly once, with the ownership still
\* recorded in the action, when PreNoMachine of that action attached one,
\* and has detached nothing otherwise.
C4_DetachIffDirectHost ==
    \A p \in Procs : \A a \in 1..Len(recipe) :
        (IsImagePartition(a) /\ Called(p, "Cleanup", a)) =>
            IF Attached(p, a)
            THEN /\ actions[p][a].usingLoop
                 /\ Len(OpsOf(p, a, "losetup -d")) = 1
            ELSE Len(OpsOf(p, a, "losetup -d")) = 0

\* the device path the naming rule gives for partition n of base
NamedDevice(base, n) ==
    IF Contains(base, DiskById)
    THEN base \o <<"-", "p", "a", "r", "t">> \o Itoa(n)
    ELSE IF IsDigit(base[Len(base)]) THEN base \o <<"p">> \o Itoa(n)
    ELSE base \o Itoa(n)

\* C5 as claimed: every device path Run derives for a partition number n is
\* base-part<n> for a by-id base, else base p<n> for a base ending in a
\* digit, else base<n>.
C5_DevicePathNaming ==
    \A k \in 1..Len(ops) :
        ops[k].op \in {"mkfs", "blkid"} =>
            ops[k].dev = NamedDevice(context[ops[k].proc].Image, ops[k].n)

\* C6: once Cleanup of an image-partition action has been called, it has
\* made one unmount per mount descriptor, from the last declared mount to
\* the first, each of the path of that mount under the mount root, and no
\* unmount comes after a detach of the loop device.
C6_UnmountReverseOrder ==
    \A p \in Procs : \A a \in 1..Len(recipe) :
        (IsImagePartition(a) /\ Called(p, "Cleanup", a)) =>
            LET u == OpsOf(p, a, "umount")
                ms == recipe[a].Mountpoints
            IN /\ Len(u) = Len(ms)
               /\ \A j \in 1..Len(u) :
                     /\ u[j].n = Len(ms) + 1 - j
                     /\ u[j].arg = PathJoin(context[p].ImageMntDir,
                                            ms[Len(ms) + 1 - j].Mountpoint)
               /\ \A j \in 1..Len(ops) :
                     (/\ ops[j].op = "losetup -d"
                      /\ ops[j].proc = p /\ ops[j].act = a) =>
                        \A k \in 1..Len(ops) :
                           (/\ ops[k].op = "umount"
                            /\ ops[k].proc = p /\ ops[k].act = a)
                              => k < j

\* Cleanup of an action with two different mount points unmounted both
C6_Witness ==
    \E p \in Procs :
        /\ Called(p, "Cleanup", 1)
        /\ Len(recipe[1].Mountpoints) = 2
        /\ recipe[1].Mountpoints[1].Mountpoint
              # recipe[1].Mountpoints[2].Mountpoint
        /\ \A j \in 1..2 : OpsOf(p, 1, "umount")[j].ok
        /\ mounts = <<>>

\* a declaration Verify has to reject
BadDeclaration(a) ==
    \/ \E k \in 1..Len(a.Partitions) :
          \/ a.Partitions[k].Name = ""
          \/ a.Partitions[k].Start = ""
          \/ a.Partitions[k].End = ""
          \/ a.Partitions[k].FS = ""
    \/ \E j \in 1..Len(a.Mountpoints) :
          \A k \in 1..Len(a.Partitions) :
              a.Partitions[k].Name # a.Mountpoints[j].Partition
    \/ a.ImageSize = Str1XB

\* C7: Verify of an image-partition action returns an error when a
\* partition lacks name, start, end or filesystem type, a mount names an
\* undeclared partition or the image size is malformed; and when it returns
\* an error no external operation has been performed, nothing is mounted or
\* attached, the context fields are as main() initialised them, and no
\* later phase call is made.
C7_VerifyFailureIsPure ==
    \A k \in 1..Len(calls) :
        (calls[k].phase = "Verify" /\ IsImagePartition(calls[k].act)) =>
            /\ BadDeclaration(recipe[calls[k].act]) => calls[k].err # NoErr
            /\ calls[k].err # NoErr =>
                  /\ k = Len(calls)
                  /\ ops = <<>>
                  /\ mounts = <<>>
                  /\ loops = {}
                  /\ context[calls[k].proc].Image = <<>>
                  /\ context[calls[k].proc].ImageMntDir = ""
                  /\ context[calls[k].proc].ImageFSTab = <<>>
                  /\ context[calls[k].proc].ImageKernelRoot = <<>>

\* Verify rejected a declaration of two well-formed partitions and a mount
\* of an undeclared partition, and the process is over
C7_Witness ==
    /\ Returned("outer", "Verify", 1, FALSE)
    /\ Len(recipe[1].Partitions) = 2
    /\ \A k \in 1..2 : recipe[1].Partitions[k] \in WellFormedParts
    /\ recipe[1].ImageSize = Str1GB
    /\ pc["outer"] = "exited"

\* C8 as claimed: after a successful Verify every mount descriptor refers to
\* a partition descriptor of the name the mount gives, and exactly one
\* declared partition carries that name.
C8_MountResolution ==
    \A p \in Procs : \A a \in 1..Len(recipe) :
        (IsImagePartition(a) /\ Returned(p, "Verify", a, TRUE)) =>
            \A j \in 1..Len(actions[p][a].Mountpoints) :
                LET m == actions[p][a].Mountpoints[j]
                    parts == actions[p][a].Partitions
                IN /\ m.part # 0
                   /\ parts[m.part].Name = m.Partition
                   /\ Cardinality({k \in 1..Len(parts) :
                                      parts[k].Name = m.Partition}) = 1

\* C9: once Verify has been called on an image-partition action whose
\* partitions are all well-formed, the k-th declared partition has number k,
\* in this and in every later state of the build.
C9_OrdinalNumbers ==
    \A p \in Procs : \A a \in 1..Len(recipe) :
        (/\ IsImagePartition(a)
         /\ Called(p, "Verify", a)
         /\ \A k \in 1..Len(recipe[a].Partitions) :
               recipe[a].Partitions[k] \in WellFormedParts)
            => \A k \in 1..Len(recipe[a].Partitions) :
                  actions[p][a].Partitions[k].number = k

\* an action of two partitions went through Verify, Run and Cleanup
C9_Witness ==
    \E p \in Procs :
        /\ Called(p, "Verify", 1)
        /\ Len(recipe[1].Partitions) = 2
        /\ Returned(p, "Run", 1, TRUE)
        /\ Called(p, "Cleanup", 1)

\* the pieces of a token sequence between the separators sep
RECURSIVE Split(_, _)
Split(t, sep) ==
    LET at == {k \in 1..Len(t) : t[k] = sep}
    IN IF at = {} THEN <<t>>
       ELSE <<SubSeq(t, 1, Min(at) - 1)>>
            \o Split(SubSeq(t, Min(at) + 1, Len(t)), sep)

\* the newline-terminated lines of a text
LinesOf(t) == SubSeq(Split(t, "\n"), 1, Len(Split(t, "\n")) - 1)

\* line is the fstab line of mount m on partition part
IsFSTabLineOf(line, m, part) ==
    LET col == Split(line, "\t")
    IN /\ Len(col) = 6
       /\ col[1] = <<"UUID=", part.FSUUID>>
       /\ part.FSUUID # ""
       /\ col[2] = <<m.Mountpoint>>
       /\ col[3] = <<IF part.FS = "fat32" THEN "vfat" ELSE part.FS>>
       /\ Len(col[4]) = 2 * Len(m.Options) + 1
       /\ col[4][1] = "defaults"
       /\ \A o \in 1..Len(m.Options) :
             col[4][2 * o] = "," /\ col[4][2 * o + 1] = m.Options[o]
       /\ col[5] = <<"0">>
       /\ col[6] = <<"0">>

\* the Run calls process p made on image-partition actions
ProvisionRuns(p) ==
    {k \in 1..Len(calls) :
        /\ calls[k].proc = p
        /\ calls[k].phase = "Run"
        /\ IsImagePartition(calls[k].act)}

\* C10: when the latest Run of an image-partition action in a process
\* succeeded, the fstab in the context of that process is a sequence of
\* complete lines, one per mount descriptor of that action and nothing
\* else, in declaration order, the j-th line made of the non-empty UUID of
\* the partition the j-th mount resolves to, its mount path, the filesystem
\* and the options "defaults" and then the configured ones, comma-joined;
\* and no fstab ever holds a line with an empty UUID.
C10_FSTab ==
    \A p \in Procs :
        /\ \A l \in 1..Len(LinesOf(context[p].ImageFSTab)) :
              LET col == Split(LinesOf(context[p].ImageFSTab)[l], "\t")
              IN Len(col[1]) = 2 /\ col[1][1] = "UUID=" /\ col[1][2] # ""
        /\ ProvisionRuns(p) # {} =>
              LET last == CHOOSE k \in ProvisionRuns(p) :
                              \A j \in ProvisionRuns(p) : j <= k
                  i == actions[p][calls[last].act]
                  text == context[p].ImageFSTab
              IN calls[last].err = NoErr =>
                    /\ Split(text, "\n")[Len(Split(text, "\n"))] = <<>>
                    /\ Len(LinesOf(text)) = Len(i.Mountpoints)
                    /\ \A j \in 1..Len(i.Mountpoints) :
                          IsFSTabLineOf(LinesOf(text)[j], i.Mountpoints[j],
                                        i.Partitions[i.Mountpoints[j].part])

\* two image-partition actions ran one after the other, the second one
\* with two mounts, one of them with an option
C10_Witness ==
    \E p \in Procs :
        /\ Len(recipe) = 2
        /\ IsImagePartition(1) /\ IsImagePartition(2)
        /\ Returned(p, "Run", 1, TRUE)
        /\ Returned(p, "Run", 2, TRUE)
        /\ Len(recipe[2].Mountpoints) = 2
        /\ Len(LinesOf(context[p].ImageFSTab)) = 2

----------------------------------------------------------------------------
(* Properties of Run of the image-partition action *)

HasRootMount(i) ==
    \E j \in 1..Len(i.Mountpoints) : i.Mountpoints[j].Mountpoint = "/"

\* the partition descriptor behind the first mount of "/"
RootPartition(i) ==
    LET j == Min({m \in 1..Len(i.Mountpoints) :
                     i.Mountpoints[m].Mountpoint = "/"})
    IN i.Partitions[i.Mountpoints[j].part]

Latest(S) == CHOOSE k \in S : \A j \in S : j <= k

\* C11 as claimed: when the latest Run of an image-partition action in a
\* process succeeded, the kernel-root parameter of the context is set
\* exactly if that action declares a mount of "/", and then it is
\* root=UUID= followed by the UUID of the partition mounted there.
C11_KernelRootIffRootMount ==
    \A p \in Procs :
        (ProvisionRuns(p) # {} /\ calls[Latest(ProvisionRuns(p))].err = NoErr)
            => LET i == actions[p][calls[Latest(ProvisionRuns(p))].act]
               IN IF HasRootMount(i)
                  THEN context[p].ImageKernelRoot
                          = <<"root=UUID=", RootPartition(i).FSUUID>>
                  ELSE context[p].ImageKernelRoot = <<>>

\* the successful Run calls of process p on actions that declare a mount
\* of "/"
RootRuns(p) ==
    {k \in ProvisionRuns(p) :
        calls[k].err = NoErr /\ HasRootMount(recipe[calls[k].act])}

\* C11 as amended: the kernel-root parameter of a context is root=UUID=
\* followed by the non-empty UUID of the partition mounted at "/" by the
\* latest successful Run of an action that declares such a mount, and is
\* unset when there has been no such Run; a Run of an action without a
\* mount of "/" leaves the parameter as it found it.  A Run fails only when
\* an external operation failed or a mounted partition has no UUID, never
\* for lack of a mount of "/".
C11_KernelRootOfLatestRootMount ==
    \A p \in Procs :
        /\ IF RootRuns(p) = {} THEN context[p].ImageKernelRoot = <<>>
           ELSE LET i == actions[p][calls[Latest(RootRuns(p))].act]
                IN /\ RootPartition(i).FSUUID # ""
                   /\ context[p].ImageKernelRoot
                         = <<"root=UUID=", RootPartition(i).FSUUID>>
        /\ \A k \in ProvisionRuns(p) :
              calls[k].err # NoErr =>
                 LET i == actions[p][calls[k].act]
                 IN \/ \E o \in 1..Len(ops) :
                          /\ ops[o].proc = p
                          /\ ops[o].act = calls[k].act
                          /\ ~ops[o].ok
                    \/ \E j \in 1..Len(i.Mountpoints) :
                          i.Partitions[i.Mountpoints[j].part].FSUUID = ""

\* Run of an action with a mount of "/" and then Run of an action without
\* one both succeeded, and the parameter still names the root partition of
\* the first
C11_Witness ==
    \E p \in Procs :
        /\ Len(recipe) = 2
        /\ IsImagePartition(1) /\ IsImagePartition(2)
        /\ HasRootMount(recipe[1]) /\ ~HasRootMount(recipe[2])
        /\ Returned(p, "Run", 1, TRUE)
        /\ Returned(p, "Run", 2, TRUE)
        /\ context[p].ImageKernelRoot = <<"root=UUID=", UUIDOf(2)>>

\* the filesystem name the tools know a configured filesystem by
VfatFor(fs) == IF fs = "fat32" THEN "vfat" ELSE fs

\* C12: the "fat32" alias.  For every partition of an image-partition
\* action the formatter run on it is mkfs.vfat when its configured
\* filesystem is fat32 and mkfs.<filesystem> otherwise; the filesystem type
\* of every mount is vfat for a fat32 partition and the configured name
\* otherwise; and when the latest Run in a process succeeded, the filesystem
\* column of every fstab line is vfat for a fat32 partition and the
\* configured name otherwise.
C12_Fat32Alias ==
    \A p \in Procs :
        /\ \A k \in 1..Len(ops) :
              (ops[k].proc = p /\ IsImagePartition(ops[k].act)) =>
                 LET i == actions[p][ops[k].act]
                 IN /\ ops[k].op = "mkfs" =>
                          ops[k].arg
                             = "mkfs." \o VfatFor(i.Partitions[ops[k].n].FS)
                    /\ ops[k].op = "mount" =>
                          ops[k].arg[2]
                             = VfatFor(i.Partitions[
                                          i.Mountpoints[ops[k].n].part].FS)
        /\ (/\ ProvisionRuns(p) # {}
            /\ calls[Latest(ProvisionRuns(p))].err = NoErr) =>
              LET i == actions[p][calls[Latest(ProvisionRuns(p))].act]
                  lines == LinesOf(context[p].ImageFSTab)
              IN /\ Len(lines) = Len(i.Mountpoints)
                 /\ \A j \in 1..Len(lines) :
                       Split(lines[j], "\t")[3]
                          = <<VfatFor(i.Partitions[i.Mountpoints[j].part].FS)>>

\* Run formatted and mounted a fat32 and an ext4 partition and wrote both
\* to the fstab
C12_Witness ==
    \E p \in Procs :
        /\ Returned(p, "Run", 1, TRUE)
        /\ Len(recipe[1].Mountpoints) = 2
        /\ {actions[p][1].Partitions[actions[p][1].Mountpoints[j].part].FS :
               j \in 1..2} = {"fat32", "ext4"}
        /\ Len(OpsOf(p, 1, "mkfs")) = 2
        /\ Len(OpsOf(p, 1, "mount")) = 2
        /\ Len(LinesOf(context[p].ImageFSTab)) = 2

----------------------------------------------------------------------------
(* Properties of the driver, continued *)

\* the calls of PreMachine or PreNoMachine made on action a
PreCalls(a) ==
    {k \in 1..Len(calls) :
        calls[k].act = a /\ calls[k].phase \in {"PreMachine", "PreNoMachine"}}

\* C13: PreMachine is only called by the process the user started, and only
\* when the build goes through the machine; PreNoMachine only by that
\* process when the build runs directly on the host; no action receives
\* more than one of these calls; and at every Run call of either process,
\* and whenever the process the user started is past its Pre* loop, every
\* action of the list has received exactly one of them, and that call
\* returned without error before the Run call was made.
C13_OnePreCall ==
    /\ \A k \in 1..Len(calls) :
          /\ calls[k].phase = "PreMachine" =>
                supported /\ calls[k].proc = "outer"
          /\ calls[k].phase = "PreNoMachine" =>
                ~supported /\ calls[k].proc = "outer"
    /\ \A a \in 1..Len(recipe) : Cardinality(PreCalls(a)) <= 1
    /\ \A k \in 1..Len(calls) :
          calls[k].phase = "Run" =>
             \A a \in 1..Len(recipe) :
                \E j \in PreCalls(a) : j < k /\ calls[j].err = NoErr
    /\ pc["outer"] \in {"RunInMachine", "InMachine", "Run", "Cleanup",
                        "PostMachine", "done"} =>
          \A a \in 1..Len(recipe) :
             \E j \in PreCalls(a) : calls[j].err = NoErr

\* a build of two actions through the machine in which the relaunched
\* process reached Run of the second action
C13_Witness ==
    /\ supported
    /\ Len(recipe) = 2
    /\ Called("outer", "PreMachine", 1)
    /\ Called("outer", "PreMachine", 2)
    /\ Called("inner", "Run", 2)

\* C14: when the process relaunched in the machine has exited with a
\* non-zero code, no PostMachine call is ever made, the recipe is not
\* reported as done, and the process the user started exits with a
\* non-zero status.
C14_InMachineFailure ==
    (pc["inner"] = "exited" /\ exitcode["inner"] # 0) =>
        /\ \A k \in 1..Len(calls) : calls[k].phase # "PostMachine"
        /\ pc["outer"] \in {"InMachine", "return", "exited"}
        /\ recipeDone = {}
        /\ pc["outer"] = "exited" => exitcode["outer"] # 0

\* Run failed in the machine and the process the user started has exited
\* with the code of the relaunched one
C14_Witness ==
    /\ Returned("inner", "Run", 1, FALSE)
    /\ pc["inner"] = "exited"
    /\ pc["outer"] = "exited"
    /\ exitcode["outer"] = 1

\* the external operations Run of the image-partition action performs
RunOps == {"mklabel", "mkpart", "set", "mkfs", "blkid", "mount"}

\* C15 as claimed: when an external operation of Run has failed, Run has
\* returned an error and has performed no further operation after the
\* failed one.
C15_RunFailuresDetected ==
    \A k \in 1..Len(ops) :
        (ops[k].op \in RunOps /\ ~ops[k].ok) =>
            /\ Returned(ops[k].proc, "Run", ops[k].act, FALSE)
            /\ \A j \in (k + 1)..Len(ops) :
                  ~(/\ ops[j].proc = ops[k].proc
                    /\ ops[j].act = ops[k].act
                    /\ ops[j].op \in RunOps)

----------------------------------------------------------------------------
(* Properties of the apt action *)

\* the Run calls made on apt actions that have allow-services false
AptDenyRuns ==
    {k \in 1..Len(calls) :
        /\ calls[k].phase = "Run"
        /\ recipe[calls[k].act].kind = "apt"
        /\ ~recipe[calls[k].act].AllowServices}

\* C16 as claimed: in a build that starts without a policy helper file,
\* once the first Run of an apt action with allow-services false has
\* returned, every command of its update/install/clean sequence has run
\* with the policy helper file in place, and the file is absent again.
C16_ServicesDeniedDuringInstall ==
    Cardinality(AptDenyRuns) = 1 =>
        LET k == CHOOSE c \in AptDenyRuns : TRUE
        IN /\ \A o \in 1..Len(ops) :
                 (ops[o].proc = calls[k].proc /\ ops[o].act = calls[k].act)
                    => ops[o].arg.helper
           /\ ~policyHelper

----------------------------------------------------------------------------
(* The order of the steps of Run of the image-partition action *)

\* the steps of Run on the partitions of i from the k-th on: operation and
\* partition number
RECURSIVE PartitionSteps(_, _)
PartitionSteps(i, k) ==
    IF k > Len(i.Partitions) THEN <<>>
    ELSE LET number == i.Partitions[k].number
         IN <<<<"mkpart", k>>>>
            \o [j \in 1..Len(i.Partitions[k].Flags) |-> <<"set", number>>]
            \o <<<<"mkfs", number>>, <<"blkid", number>>>>
            \o PartitionSteps(i, k + 1)

\* the steps of a complete Run of i: the table, then partition after
\* partition in ascending order, then mount after mount in declaration order
RunSteps(i) ==
    <<<<"mklabel", 0>>>>
    \o PartitionSteps(i, 1)
    \o [j \in 1..Len(i.Mountpoints) |-> <<"mount", j>>]

\* the steps Run of action a has performed in process p
StepsDone(p, a) ==
    LET Mine(o) == o.proc = p /\ o.act = a /\ o.op \in RunOps
        done == SelectSeq(ops, Mine)
    IN [k \in 1..Len(done) |-> <<done[k].op, done[k].n>>]

\* done is an initial part of the steps all of a complete Run, and the
\* whole of it when Run returned no error
InRunOrder(done, all, returned) ==
    /\ Len(done) <= Len(all)
    /\ done = SubSeq(all, 1, Len(done))
    /\ returned => done = all

AllMounted(p, a) ==
    LET mounted == OpsOf(p, a, "mount")
    IN /\ Len(mounted) = Len(recipe[a].Mountpoints)
       /\ \A j \in 1..Len(mounted) : mounted[j].ok

\* Run of action a went through the table and all the partitions without
\* an error
AllFormatted(p, a, done) ==
    /\ Len(done) >= 1 + Len(PartitionSteps(actions[p][a], 1))
    /\ \A k \in 1..Len(ops) :
          (/\ ops[k].proc = p /\ ops[k].act = a
           /\ ops[k].op \in RunOps \ {"mkfs", "mount"})
              => ops[k].ok

\* C17 as claimed: the steps of Run come in the order table, partitions one
\* after the other (create, flags, format, UUID), mounts in declaration
\* order; and the mount root, the fstab and the kernel-root parameter are in
\* the context only when every mount has succeeded, the kernel-root
\* parameter only together with the complete fstab.
C17_StepOrder ==
    \A p \in Procs : \A a \in 1..Len(recipe) :
        IsImagePartition(a) =>
            /\ InRunOrder(StepsDone(p, a), RunSteps(actions[p][a]),
                          Returned(p, "Run", a, TRUE))
            /\ (\/ context[p].ImageMntDir # ""
                \/ context[p].ImageFSTab # <<>>
                \/ context[p].ImageKernelRoot # <<>>) => AllMounted(p, a)
            /\ context[p].ImageKernelRoot # <<>> =>
                  Len(LinesOf(context[p].ImageFSTab))
                     = Len(recipe[a].Mountpoints)

\* C17 as amended: the steps of Run come in that order; the mount root is
\* in the context exactly when Run has gone through the table and all the
\* partitions without error, which is before the first mount is made; the
\* fstab and the kernel-root parameter are in the context only when every
\* mount has succeeded, the kernel-root parameter only together with the
\* complete fstab.
C17_StepOrderMountRootFirst ==
    \A p \in Procs : \A a \in 1..Len(recipe) :
        IsImagePartition(a) =>
            LET done == StepsDone(p, a)
            IN /\ InRunOrder(done, RunSteps(actions[p][a]),
                             Returned(p, "Run", a, TRUE))
               /\ context[p].ImageMntDir # "" <=> AllFormatted(p, a, done)
               /\ (\/ context[p].ImageFSTab # <<>>
                   \/ context[p].ImageKernelRoot # <<>>) => AllMounted(p, a)
               /\ context[p].ImageKernelRoot # <<>> =>
                     Len(LinesOf(context[p].ImageFSTab))
                        = Len(recipe[a].Mountpoints)

\* Run of an action with two partitions, one of them with a flag, failed at
\* its first mount, and the mount root is in the context
C17_Witness ==
    \E p \in Procs :
        /\ Returned(p, "Run", 1, FALSE)
        /\ Len(recipe[1].Partitions) = 2
        /\ Len(OpsOf(p, 1, "set")) = 1
        /\ Len(OpsOf(p, 1, "mount")) = 1
        /\ ~OpsOf(p, 1, "mount")[1].ok
        /\ context[p].ImageMntDir # ""

----------------------------------------------------------------------------
(* Properties of the end of a build *)

\* C18 as claimed: when an unmount or a detach of the loop device has
\* failed in Cleanup of an image-partition action, that Cleanup call has
\* returned an error, no PostMachine call is made, and the process that
\* made the call exits with a non-zero status.
C18_CleanupFailuresDetected ==
    \A k \in 1..Len(ops) :
        (ops[k].op \in {"umount", "losetup -d"} /\ ~ops[k].ok) =>
            /\ Returned(ops[k].proc, "Cleanup", ops[k].act, FALSE)
            /\ \A c \in 1..Len(calls) : calls[c].phase # "PostMachine"
            /\ pc[ops[k].proc] = "exited" => exitcode[ops[k].proc] # 0

\* C19 as claimed: when the process the user started has exited, neither
\* the temporary scratch directory nor the temporary build storage image
\* exists any more.
C19_NoTemporarySurvives ==
    pc["outer"] = "exited" => files = {}

\* the status the parent of process p sees: the low eight bits of the
\* argument of os.Exit
Status(p) == exitcode[p] % 256

\* C20 as claimed: when the process the user started has exited with
\* status 0, the recipe was parsed, every phase call made by either process
\* returned no error, RunInMachineWithArgs returned no error and, when the
\* build went through the machine, the relaunched process exited with
\* code 0.
C20_ZeroOnlyOnSuccess ==
    (pc["outer"] = "exited" /\ Status("outer") = 0) =>
        /\ parses
        /\ \A k \in 1..Len(calls) : calls[k].err = NoErr
        /\ ~relaunchErr
        /\ supported => (pc["inner"] = "exited" /\ exitcode["inner"] = 0)

====
